---------------------------- MODULE Spec2Model ----------------------------
(***************************************************************************)
(* Model of the Top 50 extraction pipeline of src/spotify_data.py          *)
(* (class Extractor) over the HTTP wrapper of src/spotify_api.py           *)
(* (class SpotifyAPI).                                                     *)
(*                                                                         *)
(* The Spotify Web API is the environment: every response is an argument   *)
(* of the action that issues the request, and each specification's         *)
(* next-state relation quantifies that argument over a bounded set of      *)
(* JSON payloads.  Python dicts are records (a dict that gains keys is a   *)
(* function on strings), Python lists are sequences, None is the record    *)
(* None, and an insertion-ordered dict is a sequence of (k, v) entries.    *)
(*                                                                         *)
(* Strings are ASCII here: the letter U+015A (S with acute) of the source  *)
(* literal at spotify_data.py:33 is written "$", which occurs in no other  *)
(* string of the model, so that "Swiat" and "$wiat" stay different.        *)
(* Floating point payload values are written as integers (thousandths).    *)
(* print() output is not modelled.                                         *)
(***************************************************************************)
EXTENDS Integers, Sequences, FiniteSets, TLC

---------------------------------------------------------------------------
(* Bounds of the model                                                     *)

\* longest list of playlist items a category response carries
MaxItems == 3
\* longest track listing a playlist response carries
MaxTracks == 2
\* longest list of country codes given to extract_raw_data, and the most
\* markets a charts mapping given to format_extracted_data holds
MaxMarkets == 2
\* how many times in a row format_extracted_data is called on one mapping
MaxCalls == 2

---------------------------------------------------------------------------
(* Program constants                                                       *)

CATEGORY_ID == "toplists"

\* time.sleep(2)
SLEEP_SECONDS == 2

\* the country the global lookup is made against
GLOBAL_LOOKUP_COUNTRY == "PL"

\* the key the global chart is stored under
GLOBAL_KEY == "GLOBAL"

\* Python's None
None == [type |-> "NoneType"]

\* the 23 keys of formatted_data, in the order of the literal
Columns ==
    << "market", "rank", "name", "artists", "artists_followers", "id",
       "album", "release_date", "popularity", "acousticness",
       "danceability", "duration_ms", "energy", "instrumentalness",
       "liveness", "loudness", "speechiness", "tempo", "valence",
       "end_of_fade_in", "start_of_fade_out", "sections_number",
       "segments_number" >>

\* the ten keys copied out of an audio-features response
FeatureKeys ==
    { "acousticness", "danceability", "duration_ms", "energy",
      "instrumentalness", "liveness", "loudness", "speechiness", "tempo",
      "valence" }

\* the four keys of an audio-analysis summary
AnalysisKeys ==
    { "end_of_fade_in", "start_of_fade_out", "sections_number",
      "segments_number" }

---------------------------------------------------------------------------
(* Python helpers                                                          *)

\* Python's  p in s  on str: p occurs in s as a contiguous substring
StrIn(p, s) ==
    \E i \in 1..(Len(s) + 1 - Len(p)) : SubSeq(s, i, i + Len(p) - 1) = p

\* d[k] = v on a dict with string keys
DictPut(d, k, v) ==
    [x \in (DOMAIN d) \cup {k} |-> IF x = k THEN v ELSE d[x]]

\* the keys of an insertion-ordered dict, in iteration order
OKeys(od) == [i \in 1..Len(od) |-> od[i].k]

\* OrderedPut that leaves a key already present alone (dict.setdefault)
OrderedPutIfAbsent(od, key, val) ==
    IF \E i \in 1..Len(od) : od[i].k = key
    THEN od
    ELSE Append(od, [k |-> key, v |-> val])

\* od[key] = val on an insertion-ordered dict: a key already present keeps
\* its place and takes the new value, a new key goes last
OrderedPut(od, key, val) ==
    IF \E i \in 1..Len(od) : od[i].k = key
    THEN [i \in 1..Len(od) |->
            IF od[i].k = key THEN [k |-> key, v |-> val] ELSE od[i]]
    ELSE Append(od, [k |-> key, v |-> val])

\* all sequences over S of length at most n
SeqUpTo(S, n) == UNION {[1..m -> S] : m \in 0..n}

\* the sequences among them that repeat no element
DistinctSeqUpTo(S, n) ==
    {s \in SeqUpTo(S, n) : \A i, j \in 1..Len(s) : i # j => s[i] # s[j]}

---------------------------------------------------------------------------
(* Payloads of the Spotify Web API (the shapes of spec section 6)          *)

\* one item of  browse/categories/{id}/playlists
Item(id, name, description) ==
    [id |-> id, name |-> name, description |-> description]

pWorld  == Item("p_world", "Top 50 - $wiat",
                "Your daily update of the most played tracks right now - Global.")
pUSA    == Item("p_usa", "Top 50 - USA",
                "Your daily update of the most played tracks right now - USA.")
pPL     == Item("p_pl", "Top 50 - Polska",
                "Your daily update of the most played tracks right now - Poland.")
pDE     == Item("p_de", "Top 50 - Niemcy",
                "Your daily update of the most played tracks right now - Germany.")
pViral  == Item("p_viral", "Viral 50 - $wiat",
                "Your daily update of the most viral tracks right now - Global.")
pAscii  == Item("p_ascii", "Top 50 - Swiat", "Hity: Top 50 i $wiat osobno.")
pHits   == Item("p_hits", "Hity $wiat Top 50",
                "The most played tracks of the decade.")

\* the items a category response may carry
Playlists == {pWorld, pUSA, pPL, pDE, pViral, pAscii, pHits}

\* the items a category response carries during a whole run
RunPlaylists == {pWorld, pUSA, pPL}

\* one artist of a track
Artist(id, name) == [id |-> id, name |-> name]

aOne == Artist("a1", "Artist One")
aTwo == Artist("a2", "Artist Two")

\* one item of  playlists/{id}/tracks
RawTrack(id, name, artists, album, release_date, popularity) ==
    [track |-> [id |-> id, name |-> name, artists |-> artists,
                album |-> [name |-> album, release_date |-> release_date],
                popularity |-> popularity]]

rSolo == RawTrack("t1", "Song A", <<aOne>>, "Alb", "2020", 80)
rDuo  == RawTrack("t2", "Song B", <<aTwo, aOne>>, "Alb B", "2021-05", 55)
rTwin == RawTrack("t3", "Song C", <<aOne, aOne>>, "Alb C", "2019-01-31", 0)
rNone == RawTrack("t4", "Song D", <<>>, "Alb D", "1999", 100)

\* the items a track listing may carry
RawTracks == {rSolo, rDuo, rTwin, rNone}

\* the follower counts an artist response may report
FollowerCounts == {100, 200}

\* an artist response: {followers: {total}}, or one without followers.total
ArtistInfo(total) == [followers |-> [total |-> total]]
ArtistError == [error |-> [status |-> 404]]

ArtistResponses == {ArtistInfo(n) : n \in FollowerCounts} \cup {ArtistError}

\* what get_artist_info answers for one artist during a whole run
RunFollowers(artist_id) == IF artist_id = "a1" THEN 100 ELSE 200

RunArtistResponses(artist_id) ==
    {ArtistInfo(RunFollowers(artist_id)), ArtistError}

\* an audio-features response for a track, and one lacking the fields
FeaturesOf(track_id) ==
    LET b == IF track_id = "t1" THEN 100 ELSE 500
    IN  [acousticness |-> b + 1, danceability |-> b + 2,
         duration_ms |-> 1000 * b, energy |-> b + 3,
         instrumentalness |-> b + 4, liveness |-> b + 5,
         loudness |-> 0 - b, speechiness |-> b + 6, tempo |-> b + 7,
         valence |-> b + 8, type |-> "audio_features", id |-> track_id]

FeaturesError == [error |-> [status |-> 404]]

FeaturesResponses(track_id) == {FeaturesOf(track_id), FeaturesError}

\* an audio-analysis response for a track, and one lacking the fields
AnalysisOf(track_id) ==
    LET n == IF track_id = "t1" THEN 1 ELSE 2
    IN  [track |-> [end_of_fade_in |-> 200 * n,
                    start_of_fade_out |-> 180000 * n, tempo |-> 120],
         sections |-> [i \in 1..n |-> [start |-> i]],
         segments |-> [i \in 1..(n + 1) |-> [start |-> i]]]

AnalysisError == [error |-> [status |-> 404]]

AnalysisResponses(track_id) == {AnalysisOf(track_id), AnalysisError}

\* the playlist items of a response:  playlists['playlists']['items']
PlaylistsResponse(items) == [playlists |-> [items |-> items]]

\* the category responses of the lookups, and those of a whole run
ItemLists == {PlaylistsResponse(s) : s \in SeqUpTo(Playlists, MaxItems)}
RunItemLists == {PlaylistsResponse(s) : s \in SeqUpTo(RunPlaylists, MaxItems)}

\* the track listings extract_playlist_tracks may be answered with
TrackLists == {[items |-> s] : s \in SeqUpTo(RawTracks, MaxTracks)}

\* the listing a playlist holds during a whole run: the world chart is
\* Song A, Song B, Song A, ..., every other chart Song B, Song B, Song A, ...
RunChart(playlist_id, n) ==
    [i \in 1..n |->
        IF playlist_id = "p_world"
        THEN IF i % 2 = 1 THEN rSolo ELSE rDuo
        ELSE IF i % 3 = 0 THEN rSolo ELSE rDuo]

\* the first n entries of it, for any n up to the bound
RunTrackLists(playlist_id) ==
    {[items |-> RunChart(playlist_id, n)] : n \in 0..MaxTracks}

\* the country codes a run is given
MarketCodes == {"PL", "DE", GLOBAL_KEY}

---------------------------------------------------------------------------
(* State                                                                   *)

VARIABLES
    entry,              \* the method of Extractor the caller invoked
    pc,                 \* the statement about to run; "done" or "raised" at the end
    error,              \* the exception that ended the call, "" while there is none
    result,             \* the value the invoked method returned, Unset before
    api_calls,          \* the requests issued through API_INSTANCE, oldest first
    playlists,          \* the category response a lookup invoked on its own works on
    countries,          \* extract_raw_data's argument
    idx,                \* position in countries; 0 while the global chart is built
    country_data,       \* extract_raw_data's dict; format_extracted_data's argument
    top50,              \* top50_global / top50_playlist: a {name, id} or None
    playlist_id,        \* extract_playlist_tracks' argument
    tracks_raw_data,    \* the track listing response
    ti,                 \* position of item in tracks_raw_data['items']
    ai,                 \* position of artist in item['track']['artists']
    track_data_dict,    \* the track record under construction
    tracks_final_data,  \* the track records built so far
    tracks,             \* the list add_tracks_information works on
    ei,                 \* position of track in tracks
    clock,              \* the time slept so far
    formatted_data,     \* format_extracted_data's table: column name -> list
    fi,                 \* position of country_code in country_data
    fj,                 \* position of track in country_data[country_code]
    track_number,       \* the rank the next row takes
    outputs             \* the tables format_extracted_data has returned so far

ctlVars == <<entry, pc, error, result, api_calls>>
runVars == <<playlists, countries, idx, country_data, top50, clock>>
trkVars == <<playlist_id, tracks_raw_data, ti, ai, track_data_dict,
             tracks_final_data, tracks, ei>>
fmtVars == <<formatted_data, fi, fj, track_number, outputs>>
vars == <<ctlVars, runVars, trkVars, fmtVars>>

\* no value returned yet
Unset == [type |-> "unset"]

\* one request: the wrapper method, its id argument, its country argument
\* ("" where it has none) and, of an artist request, the followers.total of
\* the response (-1 where the response has none, 0 for other requests)
Call(op, arg, country, ret) ==
    [op |-> op, arg |-> arg, country |-> country, ret |-> ret]

\* the state every call starts from, but for its arguments
Idle ==
    /\ error = ""
    /\ result = Unset
    /\ api_calls = <<>>
    /\ top50 = None
    /\ tracks_raw_data = [items |-> <<>>]
    /\ ti = 1
    /\ ai = 1
    /\ track_data_dict = None
    /\ tracks_final_data = <<>>
    /\ tracks = <<>>
    /\ ei = 1
    /\ clock = 0
    /\ formatted_data = None
    /\ fi = 1
    /\ fj = 1
    /\ track_number = 1
    /\ outputs = <<>>

\* an exception leaves the call: nothing is returned
Raise(e) ==
    /\ pc' = "raised"
    /\ error' = e
    /\ result' = result

---------------------------------------------------------------------------
(* Playlist lookup                                                         *)

\* the {name, id} a lookup returns for an item
playlist_info(item) == [name |-> item.name, id |-> item.id]

\* IsTop50Global with either substring being enough
IsTop50GlobalEither(item) ==
    StrIn("Top 50", item.name) \/ StrIn("$wiat", item.name)

\* the condition of the global lookup on one item
IsTop50Global(item) ==
    StrIn("Top 50", item.name) /\ StrIn("$wiat", item.name)

\* IsTop50Country without the exclusion of the USA chart
IsTop50CountryWithUSA(item) ==
    /\ StrIn("most played tracks", item.description)
    /\ ~StrIn("Global", item.description)

\* the condition of the per-country lookup on one item
IsTop50Country(item) ==
    /\ StrIn("most played tracks", item.description)
    /\ ~StrIn("Global", item.description)
    /\ ~StrIn("USA", item.description)

\* the for loop of extract_top50_global from item i on; falling off the end
\* of the function returns None
RECURSIVE ScanGlobal(_, _)
ScanGlobal(items, i) ==
    IF i > Len(items) THEN None
    ELSE IF IsTop50Global(items[i]) THEN playlist_info(items[i])
    ELSE ScanGlobal(items, i + 1)

\* the for loop of extract_top50_playlist from item i on
RECURSIVE ScanCountry(_, _)
ScanCountry(items, i) ==
    IF i > Len(items) THEN None
    ELSE IF IsTop50Country(items[i]) THEN playlist_info(items[i])
    ELSE ScanCountry(items, i + 1)

\* extract_top50_global(CATEGORY_ID), answered with response
extract_top50_global(response) ==
    /\ pc = "top50_global"
    /\ api_calls' = Append(api_calls,
            Call("get_playlists_from_category", CATEGORY_ID,
                 GLOBAL_LOOKUP_COUNTRY, 0))
    /\ LET found == ScanGlobal(response["playlists"]["items"], 1)
       IN  IF entry = "extract_top50_global"
           THEN /\ result' = found
                /\ pc' = "done"
                /\ top50' = top50
           ELSE /\ top50' = found
                /\ pc' = "global_tracks"
                /\ result' = result
    /\ UNCHANGED <<entry, error, playlists, countries, idx, country_data,
                   clock, trkVars, fmtVars>>

\* extract_top50_playlist(CATEGORY_ID, countries[idx]), answered with
\* response; in a run this is the body of  for country in countries
extract_top50_playlist(response) ==
    /\ pc = "top50_playlist"
    /\ idx <= Len(countries)
    /\ api_calls' = Append(api_calls,
            Call("get_playlists_from_category", CATEGORY_ID,
                 countries[idx], 0))
    /\ LET found == ScanCountry(response["playlists"]["items"], 1)
       IN  IF entry = "extract_top50_playlist"
           THEN /\ result' = found
                /\ pc' = "done"
                /\ top50' = top50
           ELSE /\ top50' = found
                /\ pc' = "country_tracks"
                /\ result' = result
    /\ UNCHANGED <<entry, error, playlists, countries, idx, country_data,
                   clock, trkVars, fmtVars>>

---------------------------------------------------------------------------
(* Track extraction                                                        *)

\* the track record built from one item of the listing
NewTrackData(item) ==
    [name |-> item["track"]["name"],
     artists |-> [i \in 1..Len(item["track"]["artists"]) |->
                    item["track"]["artists"][i]["name"]],
     id |-> item["track"]["id"],
     album |-> item["track"]["album"]["name"],
     release_date |-> item["track"]["album"]["release_date"],
     artists_followers |-> <<>>,
     popularity |-> item["track"]["popularity"]]

\* whether  artist_data['followers']['total']  can be read
HasFollowersTotal(artist_data) ==
    /\ "followers" \in DOMAIN artist_data
    /\ "total" \in DOMAIN artist_data["followers"]

\* the first statements of extract_playlist_tracks: the listing is
\* requested and answered with response
tracks_request(response) ==
    /\ pc = "tracks_request"
    /\ api_calls' = Append(api_calls,
            Call("get_tracks_from_playlist", playlist_id, "", 0))
    /\ tracks_raw_data' = response
    /\ tracks_final_data' = <<>>
    /\ ti' = 1
    /\ pc' = "tracks_loop"
    /\ UNCHANGED <<entry, error, result, runVars, playlist_id, ai,
                   track_data_dict, tracks, ei, fmtVars>>

\* for item in tracks_raw_data['items']: the next item's record is begun
tracks_next ==
    /\ pc = "tracks_loop"
    /\ ti <= Len(tracks_raw_data["items"])
    /\ track_data_dict' = NewTrackData(tracks_raw_data["items"][ti])
    /\ ai' = 1
    /\ pc' = "artists_loop"
    /\ UNCHANGED <<entry, error, result, api_calls, runVars, playlist_id,
                   tracks_raw_data, ti, tracks_final_data, tracks, ei,
                   fmtVars>>

\* artists_next where a response without followers.total counts as 0
artists_next_defaulting(artist_data) ==
    /\ pc = "artists_loop"
    /\ ai <= Len(tracks_raw_data["items"][ti]["track"]["artists"])
    /\ LET artist_id ==
               tracks_raw_data["items"][ti]["track"]["artists"][ai]["id"]
           known == HasFollowersTotal(artist_data)
       IN  /\ api_calls' = Append(api_calls,
                    Call("get_artist_info", artist_id, "",
                         IF known THEN artist_data["followers"]["total"]
                         ELSE -1))
           /\ track_data_dict' =
                    [track_data_dict EXCEPT !["artists_followers"] =
                        Append(@, IF known
                                  THEN artist_data["followers"]["total"]
                                  ELSE 0)]
           /\ ai' = ai + 1
           /\ UNCHANGED <<pc, error, result>>
    /\ UNCHANGED <<entry, runVars, playlist_id, tracks_raw_data, ti,
                   tracks_final_data, tracks, ei, fmtVars>>

\* artists_next with the count put at the front of artists_followers
artists_next_insert_front(artist_data) ==
    /\ pc = "artists_loop"
    /\ ai <= Len(tracks_raw_data["items"][ti]["track"]["artists"])
    /\ LET artist_id ==
               tracks_raw_data["items"][ti]["track"]["artists"][ai]["id"]
       IN  IF HasFollowersTotal(artist_data)
           THEN /\ api_calls' = Append(api_calls,
                        Call("get_artist_info", artist_id, "",
                             artist_data["followers"]["total"]))
                /\ track_data_dict' =
                        [track_data_dict EXCEPT !["artists_followers"] =
                            <<artist_data["followers"]["total"]>> \o @]
                /\ ai' = ai + 1
                /\ UNCHANGED <<pc, error, result>>
           ELSE /\ api_calls' = Append(api_calls,
                        Call("get_artist_info", artist_id, "", -1))
                /\ Raise("KeyError")
                /\ UNCHANGED <<track_data_dict, ai>>
    /\ UNCHANGED <<entry, runVars, playlist_id, tracks_raw_data, ti,
                   tracks_final_data, tracks, ei, fmtVars>>

\* for artist in item['track']['artists']: the artist is requested, answered
\* with artist_data, and its followers.total appended
artists_next(artist_data) ==
    /\ pc = "artists_loop"
    /\ ai <= Len(tracks_raw_data["items"][ti]["track"]["artists"])
    /\ LET artist_id ==
               tracks_raw_data["items"][ti]["track"]["artists"][ai]["id"]
       IN  IF HasFollowersTotal(artist_data)
           THEN /\ api_calls' = Append(api_calls,
                        Call("get_artist_info", artist_id, "",
                             artist_data["followers"]["total"]))
                /\ track_data_dict' =
                        [track_data_dict EXCEPT !["artists_followers"] =
                            Append(@, artist_data["followers"]["total"])]
                /\ ai' = ai + 1
                /\ UNCHANGED <<pc, error, result>>
           ELSE /\ api_calls' = Append(api_calls,
                        Call("get_artist_info", artist_id, "", -1))
                /\ Raise("KeyError")
                /\ UNCHANGED <<track_data_dict, ai>>
    /\ UNCHANGED <<entry, runVars, playlist_id, tracks_raw_data, ti,
                   tracks_final_data, tracks, ei, fmtVars>>

\* the end of the artists loop: the record joins tracks_final_data
tracks_append ==
    /\ pc = "artists_loop"
    /\ ai > Len(tracks_raw_data["items"][ti]["track"]["artists"])
    /\ tracks_final_data' = Append(tracks_final_data, track_data_dict)
    /\ ti' = ti + 1
    /\ pc' = "tracks_loop"
    /\ UNCHANGED <<entry, error, result, api_calls, runVars, playlist_id,
                   tracks_raw_data, ai, track_data_dict, tracks, ei,
                   fmtVars>>

\* return tracks_final_data: to the caller, or to extract_raw_data, which
\* passes the list on to add_tracks_information
tracks_return ==
    /\ pc = "tracks_loop"
    /\ ti > Len(tracks_raw_data["items"])
    /\ IF entry = "extract_playlist_tracks"
       THEN /\ result' = tracks_final_data
            /\ pc' = "done"
            /\ UNCHANGED <<tracks, ei>>
       ELSE /\ tracks' = tracks_final_data
            /\ ei' = 1
            /\ pc' = "add_tracks"
            /\ result' = result
    /\ tracks_raw_data' = [items |-> <<>>]
    /\ tracks_final_data' = <<>>
    /\ track_data_dict' = None
    /\ ti' = 1
    /\ ai' = 1
    /\ UNCHANGED <<entry, error, api_calls, runVars, playlist_id, fmtVars>>

---------------------------------------------------------------------------
(* Enrichment                                                              *)

\* whether extract_track_features can read its ten fields
HasFeatures(features) == FeatureKeys \subseteq DOMAIN features

\* features_needed_data
extract_track_features(features) == [key \in FeatureKeys |-> features[key]]

\* whether extract_track_audio_analysis can read what it reads
HasAnalysis(analysis) ==
    /\ {"track", "sections", "segments"} \subseteq DOMAIN analysis
    /\ {"end_of_fade_in", "start_of_fade_out"} \subseteq DOMAIN analysis["track"]

\* analysis_data
extract_track_audio_analysis(analysis) ==
    [end_of_fade_in |-> analysis["track"]["end_of_fade_in"],
     start_of_fade_out |-> analysis["track"]["start_of_fade_out"],
     sections_number |-> Len(analysis["sections"]),
     segments_number |-> Len(analysis["segments"])]

\* one pass of  for track in tracks: the features and the analysis of the
\* track are requested, answered with features and analysis, and stored in
\* the track; a response without the fields raises at that request
add_tracks_next(features, analysis) ==
    /\ pc = "add_tracks"
    /\ ei <= Len(tracks)
    /\ LET id == tracks[ei]["id"]
           fcall == Call("get_track_features", id, "", 0)
           acall == Call("get_track_audio_analysis", id, "", 0)
           withf == DictPut(tracks[ei], "features",
                            extract_track_features(features))
       IN  IF ~HasFeatures(features)
           THEN /\ api_calls' = Append(api_calls, fcall)
                /\ Raise("KeyError")
                /\ UNCHANGED <<tracks, ei>>
           ELSE IF ~HasAnalysis(analysis)
           THEN /\ api_calls' = api_calls \o <<fcall, acall>>
                /\ tracks' = [tracks EXCEPT ![ei] = withf]
                /\ Raise("KeyError")
                /\ UNCHANGED ei
           ELSE /\ api_calls' = api_calls \o <<fcall, acall>>
                /\ tracks' = [tracks EXCEPT ![ei] =
                        DictPut(withf, "analysis",
                                extract_track_audio_analysis(analysis))]
                /\ ei' = ei + 1
                /\ UNCHANGED <<pc, error, result>>
    /\ UNCHANGED <<entry, runVars, playlist_id, tracks_raw_data, ti, ai,
                   track_data_dict, tracks_final_data, fmtVars>>

\* return tracks: back in extract_raw_data, at the assignment to country_data
add_tracks_return ==
    /\ pc = "add_tracks"
    /\ ei > Len(tracks)
    /\ pc' = IF idx = 0 THEN "global_store" ELSE "country_store"
    /\ ei' = 1
    /\ UNCHANGED <<entry, error, result, api_calls, runVars, playlist_id,
                   tracks_raw_data, ti, ai, track_data_dict,
                   tracks_final_data, tracks, fmtVars>>

---------------------------------------------------------------------------
(* extract_raw_data                                                        *)

\* country_data = {}, then the call of extract_top50_global
raw_begin ==
    /\ pc = "raw_begin"
    /\ country_data' = <<>>
    /\ pc' = "top50_global"
    /\ UNCHANGED <<entry, error, result, api_calls, playlists, countries,
                   idx, top50, clock, trkVars, fmtVars>>

\* tracks = self.extract_playlist_tracks(top50_global['id']): subscripting
\* None raises before the call is made
raw_global_tracks ==
    /\ pc = "global_tracks"
    /\ IF top50 = None
       THEN /\ Raise("TypeError")
            /\ UNCHANGED playlist_id
       ELSE /\ playlist_id' = top50["id"]
            /\ pc' = "tracks_request"
            /\ UNCHANGED <<error, result>>
    /\ UNCHANGED <<entry, api_calls, runVars, tracks_raw_data, ti, ai,
                   track_data_dict, tracks_final_data, tracks, ei, fmtVars>>

\* country_data['GLOBAL'] = the enriched tracks, then the loop is entered
raw_global_store ==
    /\ pc = "global_store"
    /\ country_data' = OrderedPut(country_data, GLOBAL_KEY, tracks)
    /\ idx' = 1
    /\ pc' = "top50_playlist"
    /\ UNCHANGED <<entry, error, result, api_calls, playlists, countries,
                   top50, clock, trkVars, fmtVars>>

\* raw_country_tracks that goes on to the next country when no chart was found
raw_country_tracks_skipping ==
    /\ pc = "country_tracks"
    /\ IF top50 = None
       THEN /\ idx' = idx + 1
            /\ pc' = "top50_playlist"
            /\ UNCHANGED <<playlist_id, error, result>>
       ELSE /\ playlist_id' = top50["id"]
            /\ pc' = "tracks_request"
            /\ UNCHANGED <<error, result, idx>>
    /\ UNCHANGED <<entry, api_calls, playlists, countries, country_data,
                   top50, clock, tracks_raw_data, ti, ai, track_data_dict,
                   tracks_final_data, tracks, ei, fmtVars>>

\* print(top50_playlist['name']), where subscripting None raises, then
\* tracks = self.extract_playlist_tracks(top50_playlist['id'])
raw_country_tracks ==
    /\ pc = "country_tracks"
    /\ IF top50 = None
       THEN /\ Raise("TypeError")
            /\ UNCHANGED playlist_id
       ELSE /\ playlist_id' = top50["id"]
            /\ pc' = "tracks_request"
            /\ UNCHANGED <<error, result>>
    /\ UNCHANGED <<entry, api_calls, runVars, tracks_raw_data, ti, ai,
                   track_data_dict, tracks_final_data, tracks, ei, fmtVars>>

\* country_data[country] = the enriched tracks
raw_country_store ==
    /\ pc = "country_store"
    /\ country_data' = OrderedPut(country_data, countries[idx], tracks)
    /\ pc' = "sleep"
    /\ UNCHANGED <<entry, error, result, api_calls, playlists, countries,
                   idx, top50, clock, trkVars, fmtVars>>

\* raw_sleep without the sleep
raw_sleep_left_out ==
    /\ pc = "sleep"
    /\ idx' = idx + 1
    /\ pc' = "top50_playlist"
    /\ UNCHANGED <<entry, error, result, api_calls, playlists, countries,
                   country_data, top50, clock, trkVars, fmtVars>>

\* time.sleep(2), then the next country
raw_sleep ==
    /\ pc = "sleep"
    /\ clock' = clock + SLEEP_SECONDS
    /\ idx' = idx + 1
    /\ pc' = "top50_playlist"
    /\ UNCHANGED <<entry, error, result, api_calls, playlists, countries,
                   country_data, top50, trkVars, fmtVars>>

\* the loop is exhausted: return country_data
raw_return ==
    /\ pc = "top50_playlist"
    /\ entry = "extract_raw_data"
    /\ idx > Len(countries)
    /\ result' = country_data
    /\ pc' = "done"
    /\ UNCHANGED <<entry, error, api_calls, runVars, trkVars, fmtVars>>

---------------------------------------------------------------------------
(* format_extracted_data                                                   *)

\* the values the loop body appends for one track, by column
Row(country_code, rank, track) ==
    [market |-> country_code,
     rank |-> rank,
     name |-> track["name"],
     artists |-> track["artists"],
     artists_followers |-> track["artists_followers"],
     id |-> track["id"],
     album |-> track["album"],
     release_date |-> track["release_date"],
     popularity |-> track["popularity"],
     acousticness |-> track["features"]["acousticness"],
     danceability |-> track["features"]["danceability"],
     duration_ms |-> track["features"]["duration_ms"],
     energy |-> track["features"]["energy"],
     instrumentalness |-> track["features"]["instrumentalness"],
     liveness |-> track["features"]["liveness"],
     loudness |-> track["features"]["loudness"],
     speechiness |-> track["features"]["speechiness"],
     tempo |-> track["features"]["tempo"],
     valence |-> track["features"]["valence"],
     end_of_fade_in |-> track["analysis"]["end_of_fade_in"],
     start_of_fade_out |-> track["analysis"]["start_of_fade_out"],
     sections_number |-> track["analysis"]["sections_number"],
     segments_number |-> track["analysis"]["segments_number"]]

\* AppendRow with the last append of the loop body left out
AppendRowButLast(table, row) ==
    [column \in DOMAIN table |->
        IF column = "segments_number" THEN table[column]
        ELSE Append(table[column], row[column])]

\* the table with one value appended to every column
AppendRow(table, row) ==
    [column \in DOMAIN table |-> Append(table[column], row[column])]

\* format_begin with the table kept between calls (one shared dict)
format_begin_shared ==
    /\ pc = "format_begin"
    /\ formatted_data' =
            IF outputs = <<>>
            THEN [column \in {Columns[n] : n \in DOMAIN Columns} |-> <<>>]
            ELSE outputs[Len(outputs)]
    /\ fi' = 1
    /\ pc' = "format_countries"
    /\ UNCHANGED <<entry, error, result, api_calls, runVars, trkVars, fj,
                   track_number, outputs>>

\* formatted_data = {'market': [], ..., 'segments_number': []}
format_begin ==
    /\ pc = "format_begin"
    /\ formatted_data' = [column \in {Columns[n] : n \in DOMAIN Columns} |-> <<>>]
    /\ fi' = 1
    /\ pc' = "format_countries"
    /\ UNCHANGED <<entry, error, result, api_calls, runVars, trkVars, fj,
                   track_number, outputs>>

\* format_country with track_number set once, before the outer loop
format_country_numbering_on ==
    /\ pc = "format_countries"
    /\ fi <= Len(country_data)
    /\ track_number' = IF fi = 1 THEN 1 ELSE track_number
    /\ fj' = 1
    /\ pc' = "format_tracks"
    /\ UNCHANGED <<entry, error, result, api_calls, runVars, trkVars,
                   formatted_data, fi, outputs>>

\* for country_code in country_data: track_number = 1
format_country ==
    /\ pc = "format_countries"
    /\ fi <= Len(country_data)
    /\ track_number' = 1
    /\ fj' = 1
    /\ pc' = "format_tracks"
    /\ UNCHANGED <<entry, error, result, api_calls, runVars, trkVars,
                   formatted_data, fi, outputs>>

\* for track in country_data[country_code]: one value per column
format_track ==
    /\ pc = "format_tracks"
    /\ fj <= Len(country_data[fi].v)
    /\ formatted_data' =
            AppendRow(formatted_data,
                      Row(country_data[fi].k, track_number,
                          country_data[fi].v[fj]))
    /\ track_number' = track_number + 1
    /\ fj' = fj + 1
    /\ UNCHANGED <<ctlVars, runVars, trkVars, fi, outputs>>

\* the tracks of the country are exhausted
format_country_end ==
    /\ pc = "format_tracks"
    /\ fj > Len(country_data[fi].v)
    /\ fi' = fi + 1
    /\ pc' = "format_countries"
    /\ UNCHANGED <<entry, error, result, api_calls, runVars, trkVars,
                   formatted_data, fj, track_number, outputs>>

\* return formatted_data; the caller then calls again on the same mapping,
\* MaxCalls times in all
format_return ==
    /\ pc = "format_countries"
    /\ fi > Len(country_data)
    /\ outputs' = Append(outputs, formatted_data)
    /\ result' = formatted_data
    /\ formatted_data' = None
    /\ fi' = 1
    /\ pc' = IF Len(outputs) + 1 < MaxCalls THEN "format_begin" ELSE "done"
    /\ UNCHANGED <<entry, error, api_calls, runVars, trkVars, fj,
                   track_number>>

---------------------------------------------------------------------------
(* Specifications: one per method invoked                                  *)

\* an enriched track, as extract_playlist_tracks and add_tracks_information
\* build it from an item and the responses about it
EnrichedTrack(item) ==
    LET base == NewTrackData(item)
        full == [base EXCEPT !["artists_followers"] =
                    [i \in 1..Len(item["track"]["artists"]) |->
                        RunFollowers(item["track"]["artists"][i]["id"])]]
    IN  DictPut(DictPut(full, "features",
                        extract_track_features(FeaturesOf(base["id"]))),
                "analysis",
                extract_track_audio_analysis(AnalysisOf(base["id"])))

\* the charts a run can store: the enriched listings of the playlists
EnrichedCharts ==
    {[i \in 1..n |-> EnrichedTrack(RunChart(id, n)[i])] :
        id \in {"p_world", "p_pl"}, n \in 0..MaxTracks}

\* the charts mappings format_extracted_data is called on: at most n
\* distinct markets in any order, each with one of the charts
ChartMappings(n) ==
    UNION {
        {[i \in 1..Len(keys) |-> [k |-> keys[i], v |-> vals[i]]] :
            vals \in [1..Len(keys) -> EnrichedCharts]} :
        keys \in DistinctSeqUpTo(MarketCodes, n)}

\* extract_top50_global or extract_top50_playlist on one category response,
\* as part of the work on one country code
InitLocate ==
    /\ Idle
    /\ entry \in {"extract_top50_global", "extract_top50_playlist"}
    /\ playlists \in ItemLists
    /\ countries \in {<<c>> : c \in MarketCodes}
    /\ IF entry = "extract_top50_global"
       THEN pc = "top50_global" /\ idx = 0
       ELSE pc = "top50_playlist" /\ idx = 1
    /\ country_data = <<>>
    /\ playlist_id = ""

NextLocate ==
    \/ extract_top50_global(playlists)
    \/ extract_top50_playlist(playlists)

SpecLocate == InitLocate /\ [][NextLocate]_vars

\* extract_playlist_tracks on one playlist
InitTracks ==
    /\ Idle
    /\ entry = "extract_playlist_tracks"
    /\ pc = "tracks_request"
    /\ playlist_id \in {p.id : p \in RunPlaylists}
    /\ playlists = PlaylistsResponse(<<>>)
    /\ countries = <<>>
    /\ idx = 0
    /\ country_data = <<>>

NextTracks ==
    \/ \E response \in TrackLists : tracks_request(response)
    \/ tracks_next
    \/ \E artist_data \in ArtistResponses : artists_next(artist_data)
    \/ tracks_append
    \/ tracks_return

SpecTracks == InitTracks /\ [][NextTracks]_vars

\* extract_raw_data on a list of country codes
InitRun ==
    /\ Idle
    /\ entry = "extract_raw_data"
    /\ pc = "raw_begin"
    /\ countries \in SeqUpTo(MarketCodes, MaxMarkets)
    /\ idx = 0
    /\ playlists = PlaylistsResponse(<<>>)
    /\ country_data = <<>>
    /\ playlist_id = ""

\* the artist request of a run, answered for the artist asked about
RunArtistsNext ==
    /\ pc = "artists_loop"
    /\ ai <= Len(tracks_raw_data["items"][ti]["track"]["artists"])
    /\ \E artist_data \in RunArtistResponses(
                tracks_raw_data["items"][ti]["track"]["artists"][ai]["id"]) :
            artists_next(artist_data)

\* the two enrichment requests of a run, answered for the track asked about
RunAddTracksNext ==
    /\ pc = "add_tracks"
    /\ ei <= Len(tracks)
    /\ \E features \in FeaturesResponses(tracks[ei]["id"]),
          analysis \in AnalysisResponses(tracks[ei]["id"]) :
            add_tracks_next(features, analysis)

NextRun ==
    \/ raw_begin
    \/ \E response \in RunItemLists : extract_top50_global(response)
    \/ raw_global_tracks
    \/ \E response \in RunTrackLists(playlist_id) : tracks_request(response)
    \/ tracks_next
    \/ RunArtistsNext
    \/ tracks_append
    \/ tracks_return
    \/ RunAddTracksNext
    \/ add_tracks_return
    \/ raw_global_store
    \/ \E response \in RunItemLists : extract_top50_playlist(response)
    \/ raw_country_tracks
    \/ raw_country_store
    \/ raw_sleep
    \/ raw_return

SpecRun == InitRun /\ [][NextRun]_vars

\* format_extracted_data on one charts mapping
InitFormat ==
    /\ Idle
    /\ entry = "format_extracted_data"
    /\ pc = "format_begin"
    /\ country_data \in ChartMappings(MaxMarkets)
    /\ playlists = PlaylistsResponse(<<>>)
    /\ countries = <<>>
    /\ idx = 0
    /\ playlist_id = ""

NextFormat ==
    \/ format_begin
    \/ format_country
    \/ format_track
    \/ format_country_end
    \/ format_return

SpecFormat == InitFormat /\ [][NextFormat]_vars

---------------------------------------------------------------------------
(* Properties of format_extracted_data, under SpecFormat                   *)

\* the number of tracks of the first n markets of a charts mapping
RECURSIVE TracksIn(_, _)
TracksIn(charts, n) ==
    IF n = 0 THEN 0 ELSE TracksIn(charts, n - 1) + Len(charts[n].v)

\* the tracks the call in progress has appended in full
TracksDone ==
    TracksIn(country_data, fi - 1) + (IF pc = "format_tracks" THEN fj - 1 ELSE 0)

\* C1: the table always has its 23 columns, all as long as the number of
\* tracks appended so far, and every returned table has 23 columns as long
\* as the number of tracks of all markets together
C1_ColumnsAligned ==
    /\ formatted_data # None =>
            /\ Cardinality(DOMAIN formatted_data) = 23
            /\ \A column \in DOMAIN formatted_data :
                    Len(formatted_data[column]) = TracksDone
    /\ \A n \in DOMAIN outputs :
            /\ Cardinality(DOMAIN outputs[n]) = 23
            /\ DOMAIN outputs[n] = {Columns[c] : c \in DOMAIN Columns}
            /\ \A column \in DOMAIN outputs[n] :
                    Len(outputs[n][column]) =
                        TracksIn(country_data, Len(country_data))

\* a table of three rows was returned for two markets of unequal length
C1_Witness ==
    /\ outputs # <<>>
    /\ Len(country_data) = 2
    /\ Len(country_data[1].v) = 1
    /\ Len(country_data[2].v) = 2
    /\ Len(outputs[1]["market"]) = 3
    /\ Len(outputs[1]["segments_number"]) = 3

\* C2: in a returned table the rows of the i-th market of the mapping follow
\* those of the markets before it, and its j-th row is the j-th track of its
\* chart with rank j
C2_RankPerMarket ==
    \A n \in DOMAIN outputs :
        \A i \in DOMAIN country_data :
            \A j \in DOMAIN country_data[i].v :
                LET r == TracksIn(country_data, i - 1) + j
                    track == country_data[i].v[j]
                IN  /\ r <= Len(outputs[n]["rank"])
                    /\ outputs[n]["market"][r] = country_data[i].k
                    /\ outputs[n]["rank"][r] = j
                    /\ outputs[n]["id"][r] = track["id"]
                    /\ outputs[n]["name"][r] = track["name"]
                    /\ outputs[n]["artists"][r] = track["artists"]
                    /\ outputs[n]["artists_followers"][r] =
                            track["artists_followers"]
                    /\ outputs[n]["sections_number"][r] =
                            track["analysis"]["sections_number"]

\* two markets of two tracks each were flattened: ranks 1, 2, 1, 2
C2_Witness ==
    /\ outputs # <<>>
    /\ outputs[1]["rank"] = <<1, 2, 1, 2>>
    /\ outputs[1]["market"][2] # outputs[1]["market"][3]
    /\ outputs[1]["id"][1] # outputs[1]["id"][2]

\* C9: all the tables returned for one mapping are equal, and no step of
\* format_extracted_data changes the mapping it was given
C9_Idempotent ==
    /\ [](\A m, n \in DOMAIN outputs : outputs[m] = outputs[n])
    /\ [][country_data' = country_data]_vars

\* the second call on a mapping with tracks has returned
C9_Witness ==
    /\ pc = "done"
    /\ Len(outputs) >= 2
    /\ Len(outputs[2]["market"]) >= 2
    /\ Len(country_data) = 2

---------------------------------------------------------------------------
(* Properties of the playlist lookups, under SpecLocate                    *)

\* the items of the category response the lookup works on
GivenItems == playlists["playlists"]["items"]

\* the positions of the items whose name contains both "Top 50" and the
\* locale token
GlobalMatches ==
    {i \in DOMAIN GivenItems :
        StrIn("Top 50", GivenItems[i]["name"])
            /\ StrIn("$wiat", GivenItems[i]["name"])}

\* C4: extract_top50_global ends without an exception, having made one
\* request, for the category in country 'PL' whatever the country code at
\* hand; it returns None when no item's name contains both substrings, and
\* otherwise the name and id of the first item whose name does
C4_GlobalLookup ==
    (entry = "extract_top50_global" /\ pc # "top50_global") =>
        /\ pc = "done"
        /\ error = ""
        /\ api_calls =
            <<Call("get_playlists_from_category", "toplists", "PL", 0)>>
        /\ GlobalMatches = {} => result = None
        /\ GlobalMatches # {} =>
            \E i \in GlobalMatches :
                /\ \A j \in GlobalMatches : i <= j
                /\ result = [name |-> GivenItems[i]["name"],
                             id |-> GivenItems[i]["id"]]

\* the lookup passed over an item with only "Top 50" and one with only the
\* locale token, and returned the third, while the country at hand was DE
C4_Witness ==
    /\ entry = "extract_top50_global"
    /\ pc = "done"
    /\ countries = <<"DE">>
    /\ GivenItems = <<pUSA, pViral, pWorld>>
    /\ result = [name |-> "Top 50 - $wiat", id |-> "p_world"]

\* the positions of the items whose description contains "most played
\* tracks" and neither "Global" nor "USA"
CountryMatches ==
    {i \in DOMAIN GivenItems :
        /\ StrIn("most played tracks", GivenItems[i]["description"])
        /\ ~StrIn("Global", GivenItems[i]["description"])
        /\ ~StrIn("USA", GivenItems[i]["description"])}

\* C5: extract_top50_playlist ends without an exception, having made one
\* request, for the category in the country given; it returns None when no
\* item qualifies, and otherwise the name and id of the first item that
\* does, so never those of an item whose description contains "Global" or
\* "USA"
C5_CountryLookup ==
    (entry = "extract_top50_playlist" /\ pc # "top50_playlist") =>
        /\ pc = "done"
        /\ error = ""
        /\ api_calls =
            <<Call("get_playlists_from_category", "toplists",
                   countries[1], 0)>>
        /\ CountryMatches = {} => result = None
        /\ CountryMatches # {} =>
            \E i \in CountryMatches :
                /\ \A j \in CountryMatches : i <= j
                /\ result = [name |-> GivenItems[i]["name"],
                             id |-> GivenItems[i]["id"]]
        /\ \A i \in DOMAIN GivenItems :
            (StrIn("Global", GivenItems[i]["description"])
                \/ StrIn("USA", GivenItems[i]["description"]))
            => result # [name |-> GivenItems[i]["name"],
                         id |-> GivenItems[i]["id"]]

\* the lookup passed over the world chart and the USA chart and returned the
\* German one, ahead of the Polish one
C5_Witness ==
    /\ entry = "extract_top50_playlist"
    /\ pc = "done"
    /\ GivenItems = <<pWorld, pUSA, pDE>>
    /\ result = [name |-> "Top 50 - Niemcy", id |-> "p_de"]

\* the lookup found nothing to return
C5_WitnessNone ==
    /\ entry = "extract_top50_playlist"
    /\ pc = "done"
    /\ GivenItems = <<pUSA, pWorld>>
    /\ result = None

---------------------------------------------------------------------------
(* Properties of extract_playlist_tracks, under SpecTracks                 *)

IsArtistCall(call) == call["op"] = "get_artist_info"

\* the artist requests issued so far, oldest first
ArtistCalls == SelectSeq(api_calls, IsArtistCall)

\* the id of the artist of that name
ArtistIdByName(name) == (CHOOSE a \in {aOne, aTwo} : a["name"] = name)["id"]

\* one request per artist of the first n track records of list, in track
\* order then artist order, each answered with the count the record holds
\* at the artist's position
RECURSIVE ArtistCallsFor(_, _)
ArtistCallsFor(list, n) ==
    IF n = 0 THEN <<>>
    ELSE ArtistCallsFor(list, n - 1) \o
            [i \in 1..Len(list[n]["artists"]) |->
                Call("get_artist_info", ArtistIdByName(list[n]["artists"][i]),
                     "", list[n]["artists_followers"][i])]

\* C3: every track record built has as many follower counts as artists;
\* when extract_playlist_tracks has returned, the artist requests made are
\* exactly one per track and artist of the result, in track order then
\* artist order, and the count at an artist's position is the one that
\* artist's request was answered with
C3_FollowersPerArtist ==
    /\ \A t \in DOMAIN tracks_final_data :
            Len(tracks_final_data[t]["artists_followers"]) =
                Len(tracks_final_data[t]["artists"])
    /\ (entry = "extract_playlist_tracks" /\ pc = "done") =>
            /\ \A t \in DOMAIN result :
                    Len(result[t]["artists_followers"]) =
                        Len(result[t]["artists"])
            /\ ArtistCalls = ArtistCallsFor(result, Len(result))

\* two tracks were returned, the first by two artists whose requests were
\* answered with 100 and then 200
C3_Witness ==
    /\ entry = "extract_playlist_tracks"
    /\ pc = "done"
    /\ Len(result) = 2
    /\ result[1]["artists"] = <<"Artist Two", "Artist One">>
    /\ result[1]["artists_followers"] = <<100, 200>>
    /\ result[2]["artists_followers"] = <<200>>
    /\ Len(ArtistCalls) = 3

---------------------------------------------------------------------------
(* Properties of extract_raw_data, under SpecRun                           *)

IsLookup(call) == call["op"] = "get_playlists_from_category"

\* the playlist lookups issued so far, oldest first: the global one, then
\* one per country worked on
Lookups == SelectSeq(api_calls, IsLookup)

\* the request that may directly follow a request of a run that goes on
MayFollow(op) ==
    CASE op = "get_playlists_from_category" -> {"get_tracks_from_playlist"}
      [] op = "get_tracks_from_playlist" ->
            {"get_artist_info", "get_track_features",
             "get_playlists_from_category"}
      [] op = "get_artist_info" -> {"get_artist_info", "get_track_features"}
      [] op = "get_track_features" -> {"get_track_audio_analysis"}
      [] op = "get_track_audio_analysis" ->
            {"get_track_features", "get_playlists_from_category"}

\* the keys of country_data
StoredKeys == {country_data[i].k : i \in DOMAIN country_data}

\* C6: the first request is the global lookup; after a lookup the listing is
\* requested, then the artists, then features and analysis track by track,
\* and only then the next lookup; the lookups after the first are for the
\* given codes in the given order; when one of them is issued "GLOBAL" and
\* all codes before it are stored and two units were slept per code before
\* it; a further two units are slept only once the code is stored and
\* nothing is left to do for it; every stored track carries features and
\* analysis
C6_LinearRun ==
    /\ api_calls # <<>> =>
            api_calls[1] =
                Call("get_playlists_from_category", "toplists", "PL", 0)
    /\ \A i \in 1..(Len(api_calls) - 1) :
            api_calls[i + 1]["op"] \in MayFollow(api_calls[i]["op"])
    /\ Len(Lookups) <= Len(countries) + 1
    /\ \A k \in 2..Len(Lookups) : Lookups[k]["country"] = countries[k - 1]
    /\ Len(Lookups) >= 2 =>
            /\ country_data # <<>>
            /\ country_data[1].k = "GLOBAL"
            /\ \A k \in 1..(Len(Lookups) - 2) : countries[k] \in StoredKeys
    /\ Len(Lookups) <= 1 => clock = 0
    /\ Len(Lookups) >= 2 =>
            \/ clock = 2 * (Len(Lookups) - 2)
            \/ /\ clock = 2 * (Len(Lookups) - 1)
               /\ countries[Len(Lookups) - 1] \in StoredKeys
               /\ pc \in {"top50_playlist", "done"}
    /\ pc = "done" => clock = 2 * Len(countries)
    /\ \A i \in DOMAIN country_data :
            \A t \in DOMAIN country_data[i].v :
                /\ {"features", "analysis"} \subseteq
                        DOMAIN country_data[i].v[t]
                /\ DOMAIN country_data[i].v[t]["features"] = FeatureKeys
                /\ DOMAIN country_data[i].v[t]["analysis"] = AnalysisKeys

\* a run over two codes has returned three non-empty charts after four
\* units of sleep
C6_Witness ==
    /\ entry = "extract_raw_data"
    /\ pc = "done"
    /\ countries = <<"DE", "PL">>
    /\ clock = 4
    /\ Len(country_data) = 3
    /\ \A i \in DOMAIN country_data : Len(country_data[i].v) = 2
    /\ Len(Lookups) = 3

\* C7: when a lookup has found no chart, the next step raises, with no
\* request issued, nothing stored and nothing returned; nothing happens
\* once an exception was raised, and nothing has been returned then
C7_MissAborts ==
    /\ [][(pc \in {"global_tracks", "country_tracks"} /\ top50 = None) =>
            /\ pc' = "raised"
            /\ error' = "TypeError"
            /\ api_calls' = api_calls
            /\ country_data' = country_data
            /\ idx' = idx
            /\ result' = Unset]_vars
    /\ [][pc # "raised"]_vars
    /\ [](pc = "raised" => result = Unset)

\* the lookup for the second of two codes found no chart and the run raised
C7_Witness ==
    /\ entry = "extract_raw_data"
    /\ pc = "raised"
    /\ error = "TypeError"
    /\ idx = 2
    /\ Len(countries) = 2
    /\ top50 = None
    /\ Len(country_data) = 2
    /\ IsLookup(api_calls[Len(api_calls)])
    /\ result = Unset

\* every follower count of the track records in list is one an artist
\* response reported, and there is one per artist
FollowersReported(list) ==
    \A t \in DOMAIN list :
        /\ Len(list[t]["artists_followers"]) = Len(list[t]["artists"])
        /\ \A i \in DOMAIN list[t]["artists_followers"] :
                list[t]["artists_followers"][i] \in FollowerCounts

\* C8: an artist response without followers.total is the last request of
\* the run: the run has raised KeyError, nothing was appended for it and
\* nothing is returned; every track record that is built, stored or
\* returned holds one reported count per artist
C8_MissingFollowersAborts ==
    /\ \A i \in DOMAIN api_calls :
            (IsArtistCall(api_calls[i]) /\ api_calls[i]["ret"] = -1) =>
                /\ i = Len(api_calls)
                /\ pc = "raised"
                /\ error = "KeyError"
                /\ result = Unset
                /\ Len(track_data_dict["artists_followers"]) = ai - 1
    /\ FollowersReported(tracks_final_data)
    /\ FollowersReported(tracks)
    /\ \A i \in DOMAIN country_data : FollowersReported(country_data[i].v)
    /\ pc = "done" => \A i \in DOMAIN result : FollowersReported(result[i].v)

\* the second artist of a track of the first country had no followers.total
C8_Witness ==
    /\ entry = "extract_raw_data"
    /\ pc = "raised"
    /\ error = "KeyError"
    /\ idx = 1
    /\ Len(country_data) = 1
    /\ ai = 2
    /\ track_data_dict["artists_followers"] = <<200>>
    /\ api_calls[Len(api_calls)] = Call("get_artist_info", "a1", "", -1)

\* which lookup the i-th request belongs to: 0 the global one, k the one for
\* countries[k]
Pass(i) == Cardinality({p \in 1..i : IsLookup(api_calls[p])}) - 1

\* the key pass n stores its chart under
KeyOfPass(n) == IF n = 0 THEN "GLOBAL" ELSE countries[n]

\* the ids of the tracks pass n asked the features of, among the first i
\* requests, oldest first
RECURSIVE EnrichedIds(_, _)
EnrichedIds(n, i) ==
    IF i = 0 THEN <<>>
    ELSE EnrichedIds(n, i - 1) \o
            (IF api_calls[i]["op"] = "get_track_features" /\ Pass(i) = n
             THEN <<api_calls[i]["arg"]>> ELSE <<>>)

\* the last pass that stored under key
LastPass(key) ==
    CHOOSE n \in 0..Len(countries) :
        /\ KeyOfPass(n) = key
        /\ \A m \in 0..Len(countries) : KeyOfPass(m) = key => m <= n

\* where code first occurs in countries
FirstAt(code) ==
    CHOOSE k \in DOMAIN countries :
        countries[k] = code /\ \A j \in 1..(k - 1) : countries[j] # code

\* C10: the dict a run returns has "GLOBAL" as its first key, then the given
\* codes other than "GLOBAL", each once, in the order they first occur; and
\* under each key the tracks of the last pass that stored under it
C10_LastChartPerKey ==
    (entry = "extract_raw_data" /\ pc = "done") =>
        /\ result # <<>>
        /\ result[1].k = "GLOBAL"
        /\ {result[i].k : i \in DOMAIN result} =
                {"GLOBAL"} \cup {countries[k] : k \in DOMAIN countries}
        /\ \A i, j \in DOMAIN result : i # j => result[i].k # result[j].k
        /\ \A i, j \in 2..Len(result) :
                i < j => FirstAt(result[i].k) < FirstAt(result[j].k)
        /\ \A i \in DOMAIN result :
                [t \in DOMAIN result[i].v |-> result[i].v[t]["id"]] =
                    EnrichedIds(LastPass(result[i].k), Len(api_calls))

\* a run over the same code twice returned two charts, the second pass's
\* one-track chart in place of the first pass's two tracks
C10_Witness ==
    /\ entry = "extract_raw_data"
    /\ pc = "done"
    /\ countries = <<"PL", "PL">>
    /\ Len(result) = 2
    /\ Len(EnrichedIds(1, Len(api_calls))) = 2
    /\ Len(result[2].v) = 1

\* a run over the code "GLOBAL" returned one chart, the country's one
C10_WitnessGlobal ==
    /\ entry = "extract_raw_data"
    /\ pc = "done"
    /\ countries = <<"GLOBAL">>
    /\ Len(result) = 1
    /\ EnrichedIds(0, Len(api_calls)) = <<"t1">>
    /\ Len(result[1].v) = 2
    /\ result[1].v[1]["id"] = "t2"

=============================================================================
